---- MODULE Spec2Model ----
(***************************************************************************)
(* Model of verification/script.py: the parameter-space generator, the     *)
(* variant naming, the template instantiation, the multiprocessing job     *)
(* pool of run_all with its scratch directory, and the three report        *)
(* builders.                                                               *)
(*                                                                         *)
(* Python strings are sequences of one-character strings, so that          *)
(* formatting, slicing, splitting and sorting are computed, not assumed.   *)
(***************************************************************************)
EXTENDS Integers, Sequences, FiniteSets, TLC

(***************************************************************************)
(* Strings                                                                 *)
(***************************************************************************)
Digits == <<"0", "1", "2", "3", "4", "5", "6", "7", "8", "9">>

IsDigit(c) == \E i \in 1..10 : Digits[i] = c

DigitVal(c) == CHOOSE i \in 0..9 : Digits[i + 1] = c

RECURSIVE NatStr(_)
NatStr(n) ==
    IF n < 10 THEN <<Digits[n + 1]>>
    ELSE NatStr(n \div 10) \o <<Digits[(n % 10) + 1]>>

\* str(value) of a Python int
Str(n) == IF n < 0 THEN <<"-">> \o NatStr(0 - n) ELSE NatStr(n)

\* '{:02d}'.format(n) for n >= 0: at least two digits, zero padded
Fmt02d(n) == IF n < 10 THEN <<"0">> \o NatStr(n) ELSE NatStr(n)

\* sep.join(parts)
RECURSIVE Join(_, _)
Join(sep, parts) ==
    IF parts = <<>> THEN <<>>
    ELSE IF Len(parts) = 1 THEN parts[1]
    ELSE parts[1] \o sep \o Join(sep, Tail(parts))

\* s[lo:hi] with Python's treatment of negative and out-of-range indices
PyIndex(len, i) == IF i < 0 THEN (IF len + i < 0 THEN 0 ELSE len + i)
                   ELSE (IF i > len THEN len ELSE i)

PySlice(s, lo, hi) == SubSeq(s, PyIndex(Len(s), lo) + 1, PyIndex(Len(s), hi))

\* code points of the characters that occur in names and indices
Ord(c) ==
    CASE c = "," -> 44 [] c = "-" -> 45 [] c = "." -> 46 [] c = "/" -> 47
      [] IsDigit(c) -> 48 + DigitVal(c)
      [] c = "[" -> 91 [] c = "]" -> 93 [] c = "_" -> 95
      [] c = "d" -> 100 [] c = "o" -> 111 [] c = "p" -> 112 [] c = "s" -> 115
      [] OTHER -> 120

\* a < b for Python strings
RECURSIVE StrLess(_, _)
StrLess(a, b) ==
    IF b = <<>> THEN FALSE
    ELSE IF a = <<>> THEN TRUE
    ELSE IF a[1] = b[1] THEN StrLess(Tail(a), Tail(b))
    ELSE Ord(a[1]) < Ord(b[1])

(***************************************************************************)
(* Property files: generate_properties, output_folder_parser               *)
(***************************************************************************)
Kinds == <<"query", "probability", "simulation">>

Prefix(kind) ==
    CASE kind = "query" -> <<"q", "u", "e", "r", "y">>
      [] kind = "probability" -> <<"p", "r", "o", "b", "a", "b", "i", "l", "i", "t", "y">>
      [] kind = "simulation" -> <<"s", "i", "m", "u", "l", "a", "t", "i", "o", "n">>

\* output_directory = 'tmp'
output_directory == <<"t", "m", "p">>

\* os.path.join(path, item)
PathJoin(path, item) == path \o <<"/">> \o item

\* the file generate_properties writes for the index-th formula of a kind,
\* as output_folder_parser lists it
PropertyFile(kind, index) ==
    PathJoin(output_directory,
             Prefix(kind) \o <<"_">> \o Fmt02d(index) \o <<".", "t", "x", "t">>)

(***************************************************************************)
(* Variant naming: to_array, gen_name                                      *)
(***************************************************************************)
\* to_array with the separator of the short form dropped
to_array_nosep(values, short) ==
    IF ~short
    THEN <<"{">> \o Join(<<",", " ">>, [i \in DOMAIN values |-> Str(values[i])]) \o <<"}">>
    ELSE <<"[">> \o Join(<<>>, [i \in DOMAIN values |-> Str(values[i])]) \o <<"]">>

to_array(values, short) ==
    IF ~short
    THEN <<"{">> \o Join(<<",", " ">>, [i \in DOMAIN values |-> Str(values[i])]) \o <<"}">>
    ELSE <<"[">> \o Join(<<",">>, [i \in DOMAIN values |-> Str(values[i])]) \o <<"]">>

gen_name(values, property) ==
    <<"s">> \o Str(values.speed)
    \o <<"-", "d">> \o Str(values.disks)
    \o <<"-", "p">> \o Str(values.policy)
    \o <<"-", "o", "s">> \o to_array(values.out_sensors, TRUE)
    \o <<"-", "s", "p">> \o to_array(values.stations_processing, TRUE)
    \o <<"-">> \o PySlice(property, -6, -4)

\* project[:-3] in run_all: the name without its '-<index>' suffix
VariantName(name) == PySlice(name, 0, -3)

(***************************************************************************)
(* Reading an assignment back from a VariantName                           *)
(***************************************************************************)
RECURSIVE ScanDigits(_, _)
ScanDigits(s, i) ==
    IF i <= Len(s) /\ IsDigit(s[i]) THEN ScanDigits(s, i + 1) ELSE i

RECURSIVE NatVal(_)
NatVal(s) ==
    IF s = <<>> THEN 0
    ELSE NatVal(SubSeq(s, 1, Len(s) - 1)) * 10 + DigitVal(s[Len(s)])

ParseFail(i) == [ok |-> FALSE, val |-> <<>>, next |-> i]

\* an optional '-' and a run of digits starting at s[i]
ParseInt(s, i) ==
    LET neg == i <= Len(s) /\ s[i] = "-"
        b == IF neg THEN i + 1 ELSE i
        e == ScanDigits(s, b)
        n == NatVal(SubSeq(s, b, e - 1))
    IN  IF e > b THEN [ok |-> TRUE, val |-> (IF neg THEN 0 - n ELSE n), next |-> e]
        ELSE ParseFail(i)

RECURSIVE ParseItems(_, _, _)
ParseItems(s, i, acc) ==
    LET r == ParseInt(s, i)
    IN  IF ~r.ok THEN ParseFail(i)
        ELSE IF r.next <= Len(s) /\ s[r.next] = ","
             THEN ParseItems(s, r.next + 1, Append(acc, r.val))
        ELSE IF r.next <= Len(s) /\ s[r.next] = "]"
             THEN [ok |-> TRUE, val |-> Append(acc, r.val), next |-> r.next + 1]
        ELSE ParseFail(i)

ParseArray(s, i) ==
    IF ~(i <= Len(s) /\ s[i] = "[") THEN ParseFail(i)
    ELSE IF i + 1 <= Len(s) /\ s[i + 1] = "]"
         THEN [ok |-> TRUE, val |-> <<>>, next |-> i + 2]
    ELSE ParseItems(s, i + 1, <<>>)

Expect(s, i, lit) ==
    i + Len(lit) - 1 <= Len(s) /\ SubSeq(s, i, i + Len(lit) - 1) = lit

NoValues == [ok |-> FALSE]

\* the assignment a VariantName stands for, read left to right
DecodeName(n) ==
    LET r1 == ParseInt(n, 2)
        r2 == ParseInt(n, r1.next + 2)
        r3 == ParseInt(n, r2.next + 2)
        r4 == ParseArray(n, r3.next + 3)
        r5 == ParseArray(n, r4.next + 3)
    IN  IF /\ Expect(n, 1, <<"s">>) /\ r1.ok
           /\ Expect(n, r1.next, <<"-", "d">>) /\ r2.ok
           /\ Expect(n, r2.next, <<"-", "p">>) /\ r3.ok
           /\ Expect(n, r3.next, <<"-", "o", "s">>) /\ r4.ok
           /\ Expect(n, r4.next, <<"-", "s", "p">>) /\ r5.ok
           /\ r5.next = Len(n) + 1
        THEN [ok |-> TRUE, speed |-> r1.val, disks |-> r2.val, policy |-> r3.val,
              out_sensors |-> r4.val, stations_processing |-> r5.val]
        ELSE NoValues

ValuesOf(v) == [ok |-> TRUE, speed |-> v.speed, disks |-> v.disks, policy |-> v.policy,
                out_sensors |-> v.out_sensors,
                stations_processing |-> v.stations_processing]

(***************************************************************************)
(* Result identity: the string operations of run_property and run_all      *)
(***************************************************************************)
\* the first position >= i at which sep occurs in s, 0 when there is none
RECURSIVE Find(_, _, _)
Find(s, sep, i) ==
    IF i + Len(sep) - 1 > Len(s) THEN 0
    ELSE IF SubSeq(s, i, i + Len(sep) - 1) = sep THEN i
    ELSE Find(s, sep, i + 1)

\* s.split(sep)[1]: what lies between the first and the second occurrence
SplitSecond(s, sep) ==
    LET a == Find(s, sep, 1)
        from == a + Len(sep)
        b == Find(s, sep, from)
    IN  SubSeq(s, from, IF b = 0 THEN Len(s) ELSE b - 1)

\* s.split('/')[-1]
RECURSIVE SplitLast(_, _)
SplitLast(s, sep) ==
    LET a == Find(s, sep, 1)
    IN  IF a = 0 THEN s ELSE SplitLast(SubSeq(s, a + Len(sep), Len(s)), sep)

\* s.strip(chars)
RECURSIVE LStrip(_, _)
LStrip(s, chars) ==
    IF s # <<>> /\ s[1] \in chars THEN LStrip(Tail(s), chars) ELSE s

RECURSIVE RStrip(_, _)
RStrip(s, chars) ==
    IF s # <<>> /\ s[Len(s)] \in chars THEN RStrip(SubSeq(s, 1, Len(s) - 1), chars)
    ELSE s

Strip(s, chars) == RStrip(LStrip(s, chars), chars)

\* property.split('{}_'.format(prefix))[1].strip('.txt') of the file name
\* run_property returned
PropertyIndex(property, kind) ==
    Strip(SplitSecond(SplitLast(property, <<"/">>), Prefix(kind) \o <<"_">>),
          {".", "t", "x"})

\* a key made of the property index alone
ResultKey_property(name, property, kind) == <<<<>>, PropertyIndex(property, kind)>>

\* the key run_all stores a result under
ResultKey(name, property, kind) == <<VariantName(name), PropertyIndex(property, kind)>>

\* int(index)
IntOf(index) == NatVal(index)

(***************************************************************************)
(* Python dicts: insertion-ordered sequences of [k, v] items               *)
(***************************************************************************)
HasKey(d, k) == \E i \in DOMAIN d : d[i].k = k

Get(d, k) == d[CHOOSE i \in DOMAIN d : d[i].k = k].v

\* a dict that keeps one item: a later value lands on the first key stored
DictSet_first(d, k, v) ==
    IF d = <<>> THEN <<[k |-> k, v |-> v]>>
    ELSE [i \in DOMAIN d |-> IF i = 1 THEN [k |-> d[1].k, v |-> v] ELSE d[i]]

\* d[k] = v: a new key goes last, an existing key keeps its place
DictSet(d, k, v) ==
    IF HasKey(d, k)
    THEN [i \in DOMAIN d |-> IF d[i].k = k THEN [k |-> k, v |-> v] ELSE d[i]]
    ELSE Append(d, [k |-> k, v |-> v])

RECURSIVE InsertSorted(_, _)
InsertSorted(item, d) ==
    IF d = <<>> THEN <<item>>
    ELSE IF StrLess(d[1].k, item.k) THEN <<d[1]>> \o InsertSorted(item, Tail(d))
    ELSE <<item>> \o d

\* dict(sorted(d.items())) for string keys
RECURSIVE SortedDict(_)
SortedDict(d) ==
    IF d = <<>> THEN <<>> ELSE InsertSorted(d[1], SortedDict(Tail(d)))

\* the two sorts that close every print_* function
SortReport(projects) ==
    SortedDict([i \in DOMAIN projects |->
                   [k |-> projects[i].k, v |-> SortedDict(projects[i].v)]])

\* projects[project][index] = entry, creating projects[project] when missing
Store(projects, project, index, entry) ==
    DictSet(projects, project,
            DictSet(IF HasKey(projects, project) THEN Get(projects, project) ELSE <<>>,
                    index, entry))

(***************************************************************************)
(* Report builders: print_queries, print_probabilities, process_values,    *)
(* print_simulations.  results is the dict run_all returned; its items are *)
(* [k |-> <<VariantName, index>>, v |-> stdout].  An engine stdout is a     *)
(* record: nonempty (the text is not ''), satisfied (it contains 'Formula   *)
(* is satisfied'), interval and values (the numbers of the two lines a      *)
(* probability prints), traces (the formula/trace pairs after 'Verifying    *)
(* formula').                                                              *)
(***************************************************************************)
RECURSIVE QueryProjects(_, _, _)
QueryProjects(results, queries, projects) ==
    IF results = <<>> THEN projects
    ELSE LET project == results[1].k[1]
             query == results[1].k[2]
             result == results[1].v
         IN  QueryProjects(Tail(results), queries,
                 Store(projects, project, query,
                       [query |-> queries[IntOf(query) + 1],
                        result |-> result.satisfied]))

\* 'if not result: failed = True', result being the stdout text
QueriesFailed(results) == \E i \in DOMAIN results : ~results[i].v.nonempty

print_queries(results, queries) ==
    [projects |-> SortReport(QueryProjects(results, queries, <<>>)),
     failed |-> QueriesFailed(results)]

\* the decoded 'result' of one probability
ProbabilityResult(result) ==
    IF result.satisfied
    THEN [outcome |-> TRUE,
          interval |-> [min |-> result.interval[1], max |-> result.interval[2]],
          confidence |-> <<result.interval[3], 100>>,
          values |-> [range |-> [min |-> result.values[1], max |-> result.values[2]],
                      mean |-> result.values[3], samples |-> result.values[4]]]
    ELSE [outcome |-> FALSE,
          interval |-> [min |-> 0, max |-> 0],
          confidence |-> <<0, 100>>,
          values |-> [range |-> [min |-> 0, max |-> 0], mean |-> 0, samples |-> <<>>]]

RECURSIVE ProbabilityProjects(_, _, _)
ProbabilityProjects(results, probabilities, projects) ==
    IF results = <<>> THEN projects
    ELSE LET project == results[1].k[1]
             probability == results[1].k[2]
         IN  ProbabilityProjects(Tail(results), probabilities,
                 Store(projects, project, probability,
                       [probability |-> probabilities[IntOf(probability) + 1],
                        result |-> ProbabilityResult(results[1].v)]))

print_probabilities(results, probabilities) ==
    [projects |-> SortReport(ProbabilityProjects(results, probabilities, <<>>))]

\* one artifact name for every trace
ValuesFile_single(index) == <<"v", "a", "l", "u", "e", "s", ".", "c", "s", "v">>

\* '{}_{:02d}.csv'.format('values', index)
ValuesFile(index) ==
    <<"v", "a", "l", "u", "e", "s", "_">> \o Fmt02d(index) \o <<".", "c", "s", "v">>

\* process_values: one artifact per trace, numbered on from index; the series
\* maps the formula line of each trace to its artifact; written is the list of
\* the files opened with mode 'w', in order
RECURSIVE process_values(_, _, _, _)
process_values(traces, index, series, written) ==
    IF traces = <<>> THEN [series |-> series, index |-> index, written |-> written]
    ELSE process_values(Tail(traces), index + 1,
                        DictSet(series, traces[1], ValuesFile(index + 1)),
                        Append(written, ValuesFile(index + 1)))

RECURSIVE SimulationProjects(_, _, _, _, _)
SimulationProjects(results, simulations, projects, index, written) ==
    IF results = <<>> THEN [projects |-> projects, written |-> written]
    ELSE LET project == results[1].k[1]
             simulation == results[1].k[2]
             result == results[1].v
             values == process_values(result.traces, index, <<>>, written)
         IN  SimulationProjects(Tail(results), simulations,
                 Store(projects, project, simulation,
                       [simulation |-> simulations[IntOf(simulation) + 1],
                        result |-> result.satisfied,
                        series |-> values.series]),
                 values.index, values.written)

print_simulations(results, simulations) ==
    LET r == SimulationProjects(results, simulations, <<>>, 0, <<>>)
    IN  [projects |-> SortReport(r.projects), written |-> r.written]

(***************************************************************************)
(* Parameter space: get_space_length, get_extensive_length, get_space,     *)
(* generate_extensive_project                                              *)
(***************************************************************************)
\* get_space_length(max, min): the loop runs over the indices of max
RECURSIVE get_space_length(_, _)
get_space_length(max, min) ==
    IF max = <<>> THEN 1
    ELSE (max[1] + 1 - min[1]) * get_space_length(Tail(max), Tail(min))

\* get_extensive_length with one factor forgotten
get_extensive_length_short(values) ==
    (values.speed.max + 1 - values.speed.min)
    * (values.disks.max + 1 - values.disks.min)
    * (values.policy.max + 1 - values.policy.min)
    * get_space_length(values.out_sensors.max, values.out_sensors.min)

get_extensive_length(values) ==
    (values.speed.max + 1 - values.speed.min)
    * (values.disks.max + 1 - values.disks.min)
    * (values.policy.max + 1 - values.policy.min)
    * get_space_length(values.out_sensors.max, values.out_sensors.min)
    * get_space_length(values.stations_processing.max, values.stations_processing.min)

\* what next() of an iterator gives: an item, or StopIteration
Stop == [done |-> TRUE]

Item(v) == [done |-> FALSE, val |-> v]

\* range(lo, hi + 1): first element and successor
RangeFirst(lo, hi) == IF lo <= hi THEN Item(lo) ELSE Stop

RangeNext(lo, hi, x) == IF x + 1 <= hi THEN Item(x + 1) ELSE Stop

\* get_space(min, max) is product(*ranges) over the indices of min: the last
\* range runs fastest
SpaceFirst(min, max) ==
    IF \E i \in DOMAIN min : min[i] > max[i] THEN Stop ELSE Item(min)

\* the position that advances: the last one still below its maximum
Advancing(max, cur) ==
    IF \E i \in DOMAIN cur : cur[i] < max[i]
    THEN CHOOSE i \in DOMAIN cur :
             /\ cur[i] < max[i]
             /\ \A j \in DOMAIN cur : j > i => cur[j] >= max[j]
    ELSE 0

\* the product with the first range running fastest
SpaceNext_first(min, max, cur) ==
    LET k == IF \E i \in DOMAIN cur : cur[i] < max[i]
             THEN CHOOSE i \in DOMAIN cur :
                      /\ cur[i] < max[i]
                      /\ \A j \in DOMAIN cur : j < i => cur[j] >= max[j]
             ELSE 0
    IN  IF k = 0 THEN Stop
        ELSE Item([i \in DOMAIN cur |->
                 IF i > k THEN cur[i] ELSE IF i = k THEN cur[i] + 1 ELSE min[i]])

SpaceNext(min, max, cur) ==
    LET k == Advancing(max, cur)
    IN  IF k = 0 THEN Stop
        ELSE Item([i \in DOMAIN cur |->
                 IF i < k THEN cur[i] ELSE IF i = k THEN cur[i] + 1 ELSE min[i]])

\* the first assignment generate_extensive_project yields: every loop at the
\* start of its range, nothing at all when a range is empty
GenFirst(values) ==
    IF \/ RangeFirst(values.speed.min, values.speed.max).done
       \/ RangeFirst(values.disks.min, values.disks.max).done
       \/ RangeFirst(values.policy.min, values.policy.max).done
       \/ SpaceFirst(values.out_sensors.min, values.out_sensors.max).done
       \/ SpaceFirst(values.stations_processing.min, values.stations_processing.max).done
    THEN Stop
    ELSE Item([speed |-> values.speed.min, disks |-> values.disks.min,
               policy |-> values.policy.min, out_sensors |-> values.out_sensors.min,
               stations_processing |-> values.stations_processing.min])

\* resuming the generator after it yielded cur: the innermost loop that has a
\* next element advances and the loops inside it start again
GenNext(values, cur) ==
    LET stations == SpaceNext(values.stations_processing.min,
                              values.stations_processing.max, cur.stations_processing)
        sensors == SpaceNext(values.out_sensors.min, values.out_sensors.max,
                             cur.out_sensors)
        policy == RangeNext(values.policy.min, values.policy.max, cur.policy)
        disks == RangeNext(values.disks.min, values.disks.max, cur.disks)
        speed == RangeNext(values.speed.min, values.speed.max, cur.speed)
        first == GenFirst(values).val
    IN  IF ~stations.done THEN Item([cur EXCEPT !.stations_processing = stations.val])
        ELSE IF ~sensors.done
             THEN Item([cur EXCEPT !.out_sensors = sensors.val,
                                   !.stations_processing = first.stations_processing])
        ELSE IF ~policy.done
             THEN Item([first EXCEPT !.speed = cur.speed, !.disks = cur.disks,
                                     !.policy = policy.val])
        ELSE IF ~disks.done
             THEN Item([first EXCEPT !.speed = cur.speed, !.disks = disks.val])
        ELSE IF ~speed.done
             THEN Item([first EXCEPT !.speed = speed.val])
        ELSE Stop

\* a generator object: not started, suspended after a yield, or finished
generate_extensive_project(values) == [values |-> values, at |-> "fresh", cur |-> <<>>]

\* next(generator): what it gives and the generator afterwards
GenResume(g) ==
    LET r == IF g.at = "fresh" THEN GenFirst(g.values)
             ELSE IF g.at = "done" THEN Stop
             ELSE GenNext(g.values, g.cur)
    IN  [item |-> r,
         gen |-> IF r.done THEN [g EXCEPT !.at = "done", !.cur = <<>>]
                 ELSE [g EXCEPT !.at = "yielded", !.cur = r.val]]

\* the product of (max - min + 1) over every scalar and vector component
RECURSIVE RangeProduct(_, _)
RangeProduct(min, max) ==
    IF min = <<>> THEN 1
    ELSE (max[Len(max)] - min[Len(min)] + 1)
         * RangeProduct(SubSeq(min, 1, Len(min) - 1), SubSeq(max, 1, Len(max) - 1))

FlatMin(values) ==
    <<values.speed.min, values.disks.min, values.policy.min>>
    \o values.out_sensors.min \o values.stations_processing.min

FlatMax(values) ==
    <<values.speed.max, values.disks.max, values.policy.max>>
    \o values.out_sensors.max \o values.stations_processing.max

(***************************************************************************)
(* State                                                                   *)
(***************************************************************************)
VARIABLES
    nm,         \* naming: the assignment last named, its property file and name
    g_values,   \* sweep: the 'extensive' entry of the configuration
    g_length,   \* sweep: the count generate_projects returned
    g_gen,      \* sweep: the generator generate_projects returned
    g_yielded,  \* sweep: the assignments the generator has yielded so far
    args,       \* the command line: scenario and the three --no-* flags
    cpu_count,  \* os.cpu_count()
    formulas,   \* per Kind, the formulas extracted from the template
    pc,         \* where the main process is
    kind,       \* which of the three 'if' statements of __main__ is next (1..3)
    exit_code,  \* exit status of the main process once it has exited
    projects,   \* what generate_projects returned
    length,     \* the count generate_projects returned
    run,        \* locals of the running run_all: properties, argument generator, pool size
    inflight,   \* jobs whose engine invocation has started and not returned
    lost,       \* jobs whose worker exited without delivering a result
    results,    \* the results dict of the running run_all
    calls,      \* engine invocations so far, counted per (Kind, assignment, property file)
    files,      \* variant documents present in the scratch directory
    failed_in,  \* Kinds in whose run_all an engine invocation exited nonzero
    engine_out, \* what the engine printed for each job of the running run_all
    artifacts,  \* the files written to the result directory, in writing order
    reported,   \* Kinds whose print_* function has been reached
    report,     \* what the last print_* call built: the report and the banner
    tpl_file,   \* template: the characters of the template file
    tpl_project, \* template: the list get_project returned
    tpl_doc,    \* template: the list generate_project wrote with writelines
    sc_n,       \* scratch: the number of property files of the Kind
    sc_order,   \* scratch: the order in which os.listdir listed them
    sc_pool,    \* scratch: the number of workers of the pool
    sc_pc,      \* scratch: where run_all is
    sc_next,    \* scratch: how many tasks gen_args has handed out
    sc_inflight, \* scratch: property files of the jobs between write and remove
    sc_files    \* scratch: variant documents present, each with its last writer

nameVars == <<nm>>

genVars == <<g_values, g_length, g_gen, g_yielded>>

tplVars == <<tpl_file, tpl_project, tpl_doc>>

scratchVars == <<sc_n, sc_order, sc_pool, sc_pc, sc_next, sc_inflight, sc_files>>

inputVars == <<args, cpu_count, formulas>>

poolVars == <<run, inflight, lost, results, calls, files, failed_in, engine_out>>

mainVars == <<args, cpu_count, formulas, pc, kind, exit_code, projects, length, run,
              inflight, lost, results, calls, files, failed_in, engine_out, artifacts,
              reported, report>>

vars == <<nm, g_values, g_length, g_gen, g_yielded, args, cpu_count, formulas, pc, kind,
          exit_code, projects, length, run, inflight, lost, results, calls, files,
          failed_in, engine_out, artifacts, reported, report, tpl_file, tpl_project, tpl_doc, sc_n, sc_order,
          sc_pool, sc_pc, sc_next, sc_inflight, sc_files>>

None == [ok |-> FALSE]

NameIdle == nm = None

GenIdle == g_values = None /\ g_length = 0 /\ g_gen = None /\ g_yielded = <<>>

TplIdle == tpl_file = <<>> /\ tpl_project = None /\ tpl_doc = None

ScratchIdle ==
    /\ sc_n = 0 /\ sc_order = "" /\ sc_pool = 0 /\ sc_pc = "idle" /\ sc_next = 0
    /\ sc_inflight = {} /\ sc_files = {}

MainIdle ==
    /\ args = None /\ cpu_count = 0 /\ formulas = None
    /\ pc = "idle" /\ kind = 0 /\ exit_code = -1
    /\ projects = None /\ length = 0 /\ run = None
    /\ inflight = {} /\ lost = {} /\ results = <<>> /\ calls = <<>>
    /\ files = {} /\ failed_in = {} /\ reported = {} /\ report = None
    /\ engine_out = <<>> /\ artifacts = <<>>

(***************************************************************************)
(* Naming of assignments (gen_name as run_property calls it)               *)
(***************************************************************************)
\* values that exercise the sign and the digit boundaries of str()
NameVals == {-1, 1, 11}

NameVectors ==
    {<<>>} \cup {<<a>> : a \in NameVals} \cup {<<a, b>> : a, b \in NameVals}

NameAssignments ==
    [speed : NameVals, disks : NameVals, policy : NameVals,
     out_sensors : NameVectors, stations_processing : NameVectors]

NameProperties == {PropertyFile("query", 0), PropertyFile("simulation", 1)}

Named(v, property) ==
    [ok |-> TRUE, values |-> v, property |-> property, name |-> gen_name(v, property)]

\* assignments that differ from v in exactly one parameter
OneParameterAway(v) ==
    {[v EXCEPT !.speed = x] : x \in NameVals \ {v.speed}}
    \cup {[v EXCEPT !.disks = x] : x \in NameVals \ {v.disks}}
    \cup {[v EXCEPT !.policy = x] : x \in NameVals \ {v.policy}}
    \cup {[v EXCEPT !.out_sensors = x] : x \in NameVectors \ {v.out_sensors}}
    \cup {[v EXCEPT !.stations_processing = x] :
              x \in NameVectors \ {v.stations_processing}}

InitName ==
    /\ nm = None
    /\ GenIdle
    /\ MainIdle
    /\ TplIdle
    /\ ScratchIdle

\* run_property names a job: the first one, then jobs of neighbouring variants
NameJob ==
    \E v \in (IF nm.ok THEN OneParameterAway(nm.values) ELSE NameAssignments),
       p \in NameProperties :
        /\ nm' = Named(v, p)
        /\ UNCHANGED genVars
        /\ UNCHANGED mainVars
        /\ UNCHANGED <<tplVars, scratchVars>>

NextName == NameJob

SpecName == InitName /\ [][NextName]_vars

\* C9: the VariantName (the name without its '-<index>' suffix) determines the
\* assignment: reading it back gives the assignment that was named (so no two
\* assignments share a name), and in particular no assignment that differs in
\* one parameter gets the same VariantName, whatever its property file.
NameInjective ==
    nm.ok =>
        /\ DecodeName(VariantName(nm.name)) = ValuesOf(nm.values)
        /\ \A w \in OneParameterAway(nm.values), p \in NameProperties :
               VariantName(gen_name(w, p)) # VariantName(nm.name)

\* a named assignment with a negative scalar and a vector whose digits another
\* vector of the domain (<<11>>) prints too
NameInjectiveWitness ==
    /\ nm.ok
    /\ nm.values.speed = -1
    /\ nm.values.out_sensors = <<1, 1>>
    /\ nm.values.stations_processing = <<11, -1>>

(***************************************************************************)
(* Extensive sweep (generate_projects with scenario 'extensive')           *)
(***************************************************************************)
MaxArity == 2

SweepVals == {0, 1}

SweepRanges == {r \in [min : SweepVals, max : SweepVals] : r.min <= r.max}

RECURSIVE VectorRanges(_)
VectorRanges(n) ==
    IF n = 0 THEN {[min |-> <<>>, max |-> <<>>]}
    ELSE {[min |-> Append(v.min, r.min), max |-> Append(v.max, r.max)] :
              v \in VectorRanges(n - 1), r \in SweepRanges}

SweepVectors == UNION {VectorRanges(n) : n \in 0..MaxArity}

SweepConfigs ==
    [speed : SweepRanges, disks : SweepRanges, policy : SweepRanges,
     out_sensors : SweepVectors, stations_processing : SweepVectors]

InitGen ==
    /\ g_values \in SweepConfigs
    /\ g_length = 0
    /\ g_gen = None
    /\ g_yielded = <<>>
    /\ NameIdle
    /\ MainIdle
    /\ TplIdle
    /\ ScratchIdle

\* generate_projects(config, 'extensive')
GenerateExtensive ==
    /\ g_gen = None
    /\ g_gen' = generate_extensive_project(g_values)
    /\ g_length' = get_extensive_length(g_values)
    /\ UNCHANGED <<g_values, g_yielded>>
    /\ UNCHANGED nameVars
    /\ UNCHANGED mainVars
    /\ UNCHANGED <<tplVars, scratchVars>>

\* one iteration of 'for project in projects'
GenYield ==
    /\ g_gen # None
    /\ g_gen.at # "done"
    /\ LET r == GenResume(g_gen)
       IN  /\ g_gen' = r.gen
           /\ g_yielded' = IF r.item.done THEN g_yielded
                           ELSE Append(g_yielded, r.item.val)
    /\ UNCHANGED <<g_values, g_length>>
    /\ UNCHANGED nameVars
    /\ UNCHANGED mainVars
    /\ UNCHANGED <<tplVars, scratchVars>>

NextGen == GenerateExtensive \/ GenYield

SpecGen == InitGen /\ [][NextGen]_vars

GenNames == {VariantName(gen_name(g_yielded[i], PropertyFile("query", 0))) :
                 i \in DOMAIN g_yielded}

\* C8: for a sweep with min <= max in every component, get_extensive_length
\* returns the product of (max - min + 1) over all components, and the
\* generator, run to its end, yields exactly that many assignments, whose
\* VariantNames are pairwise distinct.
ExtensiveCount ==
    g_gen # None =>
        /\ g_length = RangeProduct(FlatMin(g_values), FlatMax(g_values))
        /\ Len(g_yielded) <= g_length
        /\ g_gen.at = "done" =>
               /\ Len(g_yielded) = g_length
               /\ Cardinality(GenNames) = g_length

\* a sweep over two values of every scalar and of a two-component vector, run
\* to its end
ExtensiveCountWitness ==
    /\ g_gen # None
    /\ g_gen.at = "done"
    /\ g_values.out_sensors.min = <<0, 0>>
    /\ g_values.out_sensors.max = <<1, 1>>
    /\ g_values.stations_processing.max = <<1>>
    /\ Len(g_yielded) = 64

(***************************************************************************)
(* The campaign: __main__, generate_projects, gen_args, run_property,      *)
(* run_all                                                                 *)
(***************************************************************************)
MaxCpu == 3

MaxProps == 1

\* the configuration document: a sweep of two variants and one named scenario
config ==
    [extensive |->
         [speed |-> [min |-> 1, max |-> 1],
          disks |-> [min |-> 1, max |-> 2],
          policy |-> [min |-> 0, max |-> 0],
          out_sensors |-> [min |-> <<3>>, max |-> <<3>>],
          stations_processing |-> [min |-> <<10>>, max |-> <<10>>]],
     nominal |->
         [speed |-> 1, disks |-> 2, policy |-> 1,
          out_sensors |-> <<3>>, stations_processing |-> <<10>>]]

Scenarios == {"extensive", "nominal", "missing"}

\* the I-th formula of a Kind, as parse_project extracted it
Formula(k, i) == <<k, i>>

FormulaLists(k) == {[i \in 1..n |-> Formula(k, i - 1)] : n \in 0..MaxProps}

Out(nonempty, satisfied, interval, values, traces) ==
    [nonempty |-> nonempty, satisfied |-> satisfied, interval |-> interval,
     values |-> values, traces |-> traces]

\* what the engine may print for a property of each Kind when it exits with 0
Stdouts(k) ==
    CASE k = "query" ->
             {Out(FALSE, FALSE, <<>>, <<>>, <<>>), Out(TRUE, FALSE, <<>>, <<>>, <<>>),
              Out(TRUE, TRUE, <<>>, <<>>, <<>>)}
      [] k = "probability" ->
             {Out(TRUE, FALSE, <<>>, <<>>, <<>>),
              Out(TRUE, TRUE, <<10, 20, 95>>, <<0, 10, 5, <<1, 2, 3>>>>, <<>>)}
      [] k = "simulation" ->
             {Out(TRUE, TRUE, <<>>, <<>>, <<"a">>),
              Out(TRUE, TRUE, <<>>, <<>>, <<"a", "b">>)}

ExitStatuses == {0, 1}

Init ==
    /\ args \in [scenario : Scenarios, query : BOOLEAN, probability : BOOLEAN,
                 simulation : BOOLEAN]
    /\ cpu_count \in 1..MaxCpu
    /\ formulas \in [query : FormulaLists("query"),
                     probability : FormulaLists("probability"),
                     simulation : FormulaLists("simulation")]
    \* the formulas of a Kind switched off by its flag are never read: one
    \* list stands for them all
    /\ \A k \in {"query", "probability", "simulation"} :
           args[k] => Len(formulas[k]) = MaxProps
    /\ pc = "start"
    /\ kind = 0
    /\ exit_code = -1
    /\ projects = None
    /\ length = 0
    /\ run = None
    /\ inflight = {}
    /\ lost = {}
    /\ results = <<>>
    /\ calls = <<>>
    /\ files = {}
    /\ failed_in = {}
    /\ reported = {}
    /\ report = None
    /\ engine_out = <<>>
    /\ artifacts = <<>>
    /\ NameIdle
    /\ GenIdle
    /\ TplIdle
    /\ ScratchIdle

\* generate_projects(config, scenario): (projects, length)
generate_projects(cfg, scenario) ==
    IF scenario = "extensive"
    THEN [projects |-> [type |-> "generator",
                        gen |-> generate_extensive_project(cfg[scenario])],
          length |-> get_extensive_length(cfg[scenario])]
    ELSE IF scenario \in DOMAIN cfg
    THEN [projects |-> [type |-> "list", items |-> <<cfg[scenario]>>], length |-> 1]
    ELSE [projects |-> [type |-> "none"], length |-> 0]

\* the condition of the 'if' statement that guards the k-th Kind
KindEnabled(k) == ~args[Kinds[k]] /\ Len(formulas[Kinds[k]]) > 0

\* a pool of as many workers as processing units
PoolSize_all(n) == n

\* Pool(os.cpu_count() - 1)
PoolSize(n) == n - 1

\* next() of the iterator 'for project in projects' runs on: a list is
\* iterated from its start by every loop, a generator goes on where it was
NextProject(feed, prj) ==
    IF prj.type = "list"
    THEN [item |-> IF feed.li < Len(prj.items) THEN Item(prj.items[feed.li + 1])
                   ELSE Stop,
          li |-> feed.li + 1, projects |-> prj]
    ELSE LET r == GenResume(prj.gen)
         IN  [item |-> r.item, li |-> feed.li,
              projects |-> [prj EXCEPT !.gen = r.gen]]

\* next() of gen_args: the next (project, property) pair, if any
Pull(feed, prj, properties) ==
    IF ~feed.cur.done /\ feed.pi <= Len(properties)
    THEN [done |-> FALSE, project |-> feed.cur.val, property |-> properties[feed.pi],
          feed |-> [feed EXCEPT !.pi = @ + 1], projects |-> prj]
    ELSE LET nx == NextProject(feed, prj)
         IN  IF nx.item.done
             THEN [done |-> TRUE, feed |-> [feed EXCEPT !.cur = Stop, !.li = nx.li],
                   projects |-> nx.projects]
             ELSE [done |-> FALSE, project |-> nx.item.val, property |-> properties[1],
                   feed |-> [cur |-> nx.item, pi |-> 2, li |-> nx.li],
                   projects |-> nx.projects]

\* the orders in which os.listdir may list the n property files of a Kind
ListingOrders(k, n) ==
    {[i \in 1..n |-> PropertyFile(k, f[i])] :
         f \in {g \in [1..n -> 0..(n - 1)] : \A i, j \in 1..n : g[i] = g[j] => i = j}}

\* os.path.join(path, 'project_{}.xml'.format(name))
FullName(name) ==
    PathJoin(output_directory,
             <<"p", "r", "o", "j", "e", "c", "t", "_">> \o name \o <<".", "x", "m", "l">>)

Job(project, property) ==
    [project |-> project, property |-> property, name |-> gen_name(project, property)]

CallKey(k, job) == <<k, job.project, job.property>>

Count(bag, key) == IF key \in DOMAIN bag THEN bag[key] ELSE 0

\* a removal that is skipped when the engine failed
remove_on_success(fs, fullname, returncode) ==
    IF returncode = 0 THEN fs \ {fullname} ELSE fs

\* line 209: os.remove(fullname), run before the status is looked at
remove(fs, fullname, returncode) == fs \ {fullname}

\* what run_property does with a nonzero status when it does not look at it
run_property_unchecked(returncode) == "return"

\* run_property after the engine returned: exit(1) on a nonzero status
run_property(returncode) == IF returncode # 0 THEN "exit" ELSE "return"

\* line 367
GenerateProjects ==
    /\ pc = "start"
    /\ \E r \in {generate_projects(config, args.scenario)} :
           /\ projects' = r.projects
           /\ length' = r.length
    /\ pc' = "select"
    /\ kind' = 1
    /\ UNCHANGED <<exit_code, reported, report, artifacts>>
    /\ UNCHANGED <<inputVars, poolVars, nameVars, genVars, tplVars, scratchVars>>

\* a Kind whose 'if' is false (or all of them, when projects is None)
SkipKind ==
    /\ pc = "select"
    /\ kind \in 1..3
    /\ ~(projects.type # "none" /\ KindEnabled(kind))
    /\ kind' = kind + 1
    /\ UNCHANGED <<pc, exit_code, projects, length, reported, report, artifacts>>
    /\ UNCHANGED <<inputVars, poolVars, nameVars, genVars, tplVars, scratchVars>>

\* run_all up to its loop: the pool, the empty results, the argument generator
RunAllStart ==
    /\ pc = "select"
    /\ kind \in 1..3
    /\ projects.type # "none" /\ KindEnabled(kind)
    /\ PoolSize(cpu_count) >= 1
    /\ \E properties \in ListingOrders(Kinds[kind], Len(formulas[Kinds[kind]])) :
           run' = [properties |-> properties,
                   feed |-> [cur |-> Stop, pi |-> 1, li |-> 0],
                   pool |-> PoolSize(cpu_count)]
    /\ results' = <<>>
    /\ inflight' = {}
    /\ lost' = {}
    /\ report' = None
    /\ engine_out' = <<>>
    /\ pc' = "run_all"
    /\ UNCHANGED <<kind, exit_code, projects, length, reported, calls, files, failed_in,
                   artifacts>>
    /\ UNCHANGED <<inputVars, nameVars, genVars, tplVars, scratchVars>>

\* Pool(0) raises ValueError: the main process ends with a traceback
PoolError ==
    /\ pc = "select"
    /\ kind \in 1..3
    /\ projects.type # "none" /\ KindEnabled(kind)
    /\ PoolSize(cpu_count) < 1
    /\ pc' = "exited"
    /\ exit_code' = 1
    /\ UNCHANGED <<kind, projects, length, reported, report, artifacts>>
    /\ UNCHANGED <<inputVars, poolVars, nameVars, genVars, tplVars, scratchVars>>

\* an idle worker takes the next task: run_property names the job, writes the
\* variant document and starts the engine
StartJob ==
    /\ pc = "run_all"
    /\ Cardinality(inflight) < run.pool
    /\ \E nx \in {Pull(run.feed, projects, run.properties)} :
           /\ ~nx.done
           /\ \E job \in {Job(nx.project, nx.property)} :
                  /\ inflight' = inflight \cup {job}
                  /\ files' = files \cup {FullName(job.name)}
                  /\ \E key \in {CallKey(Kinds[kind], job)} :
                         calls' = IF key \in DOMAIN calls
                                  THEN [calls EXCEPT ![key] = @ + 1]
                                  ELSE calls @@ (key :> 1)
           /\ run' = [run EXCEPT !.feed = nx.feed]
           /\ projects' = nx.projects
    /\ UNCHANGED <<pc, kind, exit_code, length, lost, results, failed_in, engine_out,
                   reported, report, artifacts>>
    /\ UNCHANGED <<inputVars, nameVars, genVars, tplVars, scratchVars>>

\* the engine of a job returns: the variant document is removed; on status 0
\* the result reaches the loop of run_all, which stores it; otherwise exit(1)
\* ends the worker process, the pool starts a new worker in its place, and
\* the result of the job never arrives
EndJob ==
    /\ pc = "run_all"
    /\ \E job \in inflight, returncode \in ExitStatuses, stdout \in Stdouts(Kinds[kind]) :
           /\ returncode # 0 => stdout = CHOOSE o \in Stdouts(Kinds[kind]) : TRUE
           /\ inflight' = inflight \ {job}
           /\ files' = remove(files, FullName(job.name), returncode)
           /\ IF run_property(returncode) = "return"
              THEN /\ \E key \in {ResultKey(job.name, job.property, Kinds[kind])} :
                          results' = DictSet(results, key, stdout)
                   /\ lost' = lost
              ELSE /\ lost' = lost \cup {job}
                   /\ results' = results
           /\ failed_in' = IF returncode # 0 THEN failed_in \cup {Kinds[kind]}
                           ELSE failed_in
           /\ \E key \in {CallKey(Kinds[kind], job)} :
                  engine_out' = IF key \in DOMAIN engine_out
                                THEN [engine_out EXCEPT ![key] = stdout]
                                ELSE engine_out @@ (key :> stdout)
    /\ UNCHANGED <<pc, kind, exit_code, projects, length, run, calls, reported, report,
                   artifacts>>
    /\ UNCHANGED <<inputVars, nameVars, genVars, tplVars, scratchVars>>

\* the loop over imap_unordered ends once every task handed to the pool has
\* delivered its result; then pool.close(), pool.join(), return results
RunAllReturn ==
    /\ pc = "run_all"
    /\ inflight = {}
    /\ lost = {}
    /\ \E nx \in {Pull(run.feed, projects, run.properties)} :
           /\ nx.done
           /\ projects' = nx.projects
    /\ pc' = "print"
    /\ UNCHANGED <<kind, exit_code, length, reported, report, artifacts>>
    /\ UNCHANGED <<inputVars, poolVars, nameVars, genVars, tplVars, scratchVars>>

Printed(r) ==
    /\ pc = "print"
    /\ report' = [ok |-> TRUE, kind |-> Kinds[kind], projects |-> r.projects,
                  banner |-> r.banner]
    /\ reported' = reported \cup {Kinds[kind]}
    /\ artifacts' = artifacts \o r.written
    /\ pc' = "select"
    /\ kind' = kind + 1
    /\ UNCHANGED <<exit_code, projects, length>>
    /\ UNCHANGED <<inputVars, poolVars, nameVars, genVars, tplVars, scratchVars>>

PrintQueries ==
    /\ pc = "print"
    /\ Kinds[kind] = "query"
    /\ \E r \in {print_queries(results, formulas.query)} :
           Printed([projects |-> r.projects,
                    banner |-> IF r.failed THEN "Some properties aren't satisfied!"
                               ELSE "All the properties are satisfied!",
                    written |-> <<>>])

PrintProbabilities ==
    /\ pc = "print"
    /\ Kinds[kind] = "probability"
    /\ \E r \in {print_probabilities(results, formulas.probability)} :
           Printed([projects |-> r.projects, banner |-> "", written |-> <<>>])

PrintSimulations ==
    /\ pc = "print"
    /\ Kinds[kind] = "simulation"
    /\ \E r \in {print_simulations(results, formulas.simulation)} :
           Printed([projects |-> r.projects, banner |-> "", written |-> r.written])

\* lines 377-379: the scratch directory is removed and the process ends
Finish ==
    /\ pc = "select"
    /\ kind = 4
    /\ files' = {}
    /\ pc' = "exited"
    /\ exit_code' = 0
    /\ UNCHANGED <<kind, projects, length, reported, report, artifacts>>
    /\ UNCHANGED <<inputVars, run, inflight, lost, results, calls, failed_in, engine_out>>
    /\ UNCHANGED <<nameVars, genVars, tplVars, scratchVars>>

Next ==
    \/ GenerateProjects
    \/ SkipKind
    \/ RunAllStart
    \/ PoolError
    \/ StartJob
    \/ EndJob
    \/ RunAllReturn
    \/ PrintQueries
    \/ PrintProbabilities
    \/ PrintSimulations
    \/ Finish

Spec == Init /\ [][Next]_vars

(***************************************************************************)
(* Properties of the campaign                                              *)
(***************************************************************************)
\* the assignments within the ranges of a sweep
VectorsIn(min, max) ==
    LET lo == CHOOSE x \in {min[i] : i \in DOMAIN min} :
                  \A i \in DOMAIN min : x <= min[i]
        hi == CHOOSE x \in {max[i] : i \in DOMAIN max} :
                  \A i \in DOMAIN max : max[i] <= x
    IN  {v \in [DOMAIN min -> lo..hi] :
             \A i \in DOMAIN min : min[i] <= v[i] /\ v[i] <= max[i]}

VectorSpace(min, max) == IF min = <<>> THEN {<<>>} ELSE VectorsIn(min, max)

SweepAssignments(values) ==
    [speed : values.speed.min..values.speed.max,
     disks : values.disks.min..values.disks.max,
     policy : values.policy.min..values.policy.max,
     out_sensors : VectorSpace(values.out_sensors.min, values.out_sensors.max),
     stations_processing : VectorSpace(values.stations_processing.min,
                                       values.stations_processing.max)]

\* the variants of the configured parameter space
ConfiguredVariants ==
    IF args.scenario = "extensive" THEN SweepAssignments(config.extensive)
    ELSE IF args.scenario \in DOMAIN config THEN {config[args.scenario]}
    ELSE {}

\* C1: in a run that completes with every engine invocation exiting with 0,
\* for every enabled Kind with at least one formula every (variant, property)
\* pair of the configured parameter space is run through the engine exactly
\* once, for the later Kinds as for the first.
EveryPairOnce ==
    (pc = "exited" /\ exit_code = 0 /\ failed_in = {}) =>
        \A k \in 1..3 :
            KindEnabled(k) =>
                \A v \in ConfiguredVariants, i \in 1..Len(formulas[Kinds[k]]) :
                    Count(calls, <<Kinds[k], v, PropertyFile(Kinds[k], i - 1)>>) = 1

\* C2: once an engine invocation has exited with a nonzero status the run is
\* over: no further job is dispatched to the engine.
NoDispatchAfterFailure == [][failed_in # {} => calls' = calls]_vars

\* C3: no report is emitted for a Kind in whose run_all an engine invocation
\* exited with a nonzero status: print_* is never reached for those results.
NoReportAfterFailure ==
    /\ failed_in \cap reported = {}
    /\ failed_in # {} => pc = "run_all" /\ report = None

\* one job failed, the other job of the run delivered its result, nothing is
\* left to run
NoReportAfterFailureWitness ==
    /\ pc = "run_all"
    /\ failed_in # {}
    /\ Cardinality(lost) = 1
    /\ Len(results) = 1
    /\ inflight = {}
    /\ Pull(run.feed, projects, run.properties).done

RECURSIVE EntryCount(_)
EntryCount(projs) ==
    IF projs = <<>> THEN 0 ELSE Len(projs[1].v) + EntryCount(Tail(projs))

SubmittedJobs(k) == {key \in DOMAIN calls : key[1] = k}

\* the (VariantName, Index) a job of assignment v and property file f stands for
ExpectedKey(k, v, f) ==
    <<VariantName(gen_name(v, f)),
      Fmt02d(CHOOSE i \in 0..Len(formulas[k]) : PropertyFile(k, i) = f)>>

HasEntry(key) ==
    \E i \in DOMAIN report.projects :
        /\ report.projects[i].k = key[1]
        /\ \E j \in DOMAIN report.projects[i].v : report.projects[i].v[j].k = key[2]

\* C4: an emitted report has exactly one entry for every job submitted to the
\* pool, whatever its decoded outcome: every job has its own (VariantName,
\* Index) key and the number of entries is the number of submitted jobs.
ReportComplete ==
    report.ok =>
        /\ \A key \in SubmittedJobs(report.kind) :
               HasEntry(ExpectedKey(report.kind, key[2], key[3]))
        /\ EntryCount(report.projects) = Cardinality(SubmittedJobs(report.kind))
        /\ EntryCount(report.projects) = Len(results)

\* a probability report of two jobs, one of them without the marker
ReportCompleteWitness ==
    /\ report.ok
    /\ report.kind = "probability"
    /\ EntryCount(report.projects) = 2
    /\ \E i \in DOMAIN report.projects :
           \E j \in DOMAIN report.projects[i].v :
               ~report.projects[i].v[j].v.result.outcome

KeyLess(a, b) == StrLess(a[1], b[1]) \/ (a[1] = b[1] /\ StrLess(a[2], b[2]))

RECURSIVE InKeyOrder(_)
InKeyOrder(d) ==
    IF d = <<>> THEN <<>>
    ELSE LET rest == InKeyOrder(Tail(d))
             n == Cardinality({i \in DOMAIN rest : KeyLess(rest[i].k, d[1].k)})
         IN  SubSeq(rest, 1, n) \o <<d[1]>> \o SubSeq(rest, n + 1, Len(rest))

BuildReport(k, res) ==
    CASE k = "query" -> print_queries(res, formulas.query).projects
      [] k = "probability" -> print_probabilities(res, formulas.probability).projects
      [] k = "simulation" -> print_simulations(res, formulas.simulation).projects

\* C5: the report of a Kind is the same for every completion order of the same
\* jobs with the same stdout: it is the report built from the results taken
\* in (VariantName, Index) order.
OrderIndependent ==
    report.ok => report.projects = BuildReport(report.kind, InKeyOrder(results))

\* C6: the banner of print_queries says 'Some properties aren't satisfied!'
\* whenever some Query outcome of the report is false.
FailedFlagSet ==
    (report.ok /\ report.kind = "query") =>
        ((\E i \in DOMAIN report.projects :
              \E j \in DOMAIN report.projects[i].v : ~report.projects[i].v[j].v.result)
         => report.banner = "Some properties aren't satisfied!")

\* C7: with a scenario name that is neither 'extensive' nor a key of the
\* configuration, no job is dispatched and the process exits with a nonzero
\* exit code.
UnknownScenarioFails ==
    (pc = "exited" /\ args.scenario # "extensive" /\ args.scenario \notin DOMAIN config)
        => calls = <<>> /\ exit_code # 0

\* C10: with N processing units, at most N - 1 engine invocations are in
\* flight at any instant.
PoolBound == pc # "idle" => Cardinality(inflight) <= cpu_count - 1

\* every worker of a three-unit machine is busy
PoolBoundWitness == cpu_count = 3 /\ Cardinality(inflight) = 2

(***************************************************************************)
(* Templates: get_project and generate_project                             *)
(***************************************************************************)
MaxLines == 4

\* what a file opened with mode 'r' delivers: '\r\n' and '\r' are read as '\n'
RECURSIVE UniversalNewlines(_)
UniversalNewlines(s) ==
    IF s = <<>> THEN <<>>
    ELSE IF s[1] = "\r"
    THEN <<"\n">> \o UniversalNewlines(IF Len(s) > 1 /\ s[2] = "\n"
                                       THEN SubSeq(s, 3, Len(s)) ELSE Tail(s))
    ELSE <<s[1]>> \o UniversalNewlines(Tail(s))

\* the lines of a text, each with its terminator; the last one may have none
RECURSIVE ReadLines(_)
ReadLines(s) ==
    IF s = <<>> THEN <<>>
    ELSE LET n == Find(s, <<"\n">>, 1)
         IN  IF n = 0 THEN <<s>>
             ELSE <<SubSeq(s, 1, n)>> \o ReadLines(SubSeq(s, n + 1, Len(s)))

\* file.readlines() of a file opened with mode 'r'
readlines(file) == ReadLines(UniversalNewlines(file))

\* get_project: every line without its last character
get_project(file) ==
    LET lines == readlines(file)
    IN  [i \in DOMAIN lines |-> PySlice(lines[i], 0, -1)]

SystemOpen == <<"<", "s", "y", "s", "t", "e", "m", ">">>

SystemClose == <<"<", "/", "s", "y", "s", "t", "e", "m", ">">>

\* sub in line
Contains(line, sub) == Find(line, sub, 1) # 0

\* the literal 'static' of generate_project, one element per line
static ==
    <<"\n",
      "const SlotId POS_IN_SENSORS_IN_ORDER[STATIONS] = {POS_IN_SENSORS[0], POS_IN_SENSORS[1], POS_IN_SENSORS[3], POS_IN_SENSORS[2], POS_IN_SENSORS[4], POS_IN_SENSORS[5]};\n",
      "const OutSensorId OUT_SENSORS_ID_IN_ORDER[STATIONS] = {1, 2, 4, 3, 4, 0};\n",
      "const StationId IN_SENSORS_STATION[IN_SENSORS] = {0, 1, 3, 2, 4, 5};\n",
      "\n",
      "initializer = Initializer(DISKS);\n",
      "motor = Motor(SPEED);\n",
      "conveyorBelt = ConveyorBelt();\n",
      "station(const StationId id) = Station(id, POS_STATIONS[id], STATIONS_ELABORATION_TIME[id], POS_IN_SENSORS_IN_ORDER[id], OUT_SENSORS_ID_IN_ORDER[id]);\n",
      "inSensor(const InSensorId id) = InSensor(id, IN_SENSORS_STATION[id]);\n",
      "outSensor(const OutSensorId id) = OutSensor(id, POS_OUT_SENSORS[id]);\n">>

\* the strings generate_project appends in place of the marked region; a
\* literal of the source is one element, a formatted value is its characters
Block(values) ==
    <<<<"    <system>\n">>,
      <<"const int SPEED = ">> \o Str(values.speed) \o <<";\n">>,
      <<"const int[1, 12] DISKS = ">> \o Str(values.disks) \o <<";\n">>,
      <<"const SlotId POS_OUT_SENSORS[OUT_SENSORS] = ">>
          \o to_array(values.out_sensors, FALSE) \o <<";\n">>,
      <<"const int STATIONS_ELABORATION_TIME[STATIONS] = ">>
          \o to_array(values.stations_processing, FALSE) \o <<";\n">>,
      static,
      IF values.policy = 0
      THEN <<"flowController = FlowController_0(POS_OUT_SENSORS[2], POS_OUT_SENSORS[3]);\n">>
      ELSE <<"flowController = FlowController_">> \o Str(values.policy) \o <<"();\n">>,
      <<"system initializer, motor, conveyorBelt, station, inSensor, outSensor, flowController;\n">>,
      <<"    </system>\n">>>>

\* the loop of generate_project over the lines from the i-th on: new_project
RECURSIVE Instantiate(_, _, _, _, _)
Instantiate(project, i, values, system, done) ==
    IF i > Len(project) THEN <<>>
    ELSE IF ~system /\ ~Contains(project[i], SystemOpen)
    THEN <<project[i] \o <<"\n">>>> \o Instantiate(project, i + 1, values, system, done)
    ELSE IF Contains(project[i], SystemClose)
    THEN Instantiate(project, i + 1, values, FALSE, done)
    ELSE IF ~done
    THEN Block(values) \o Instantiate(project, i + 1, values, TRUE, TRUE)
    ELSE Instantiate(project, i + 1, values, system, done)

\* file.writelines(lines): the strings one after the other
RECURSIVE writelines(_)
writelines(lines) ==
    IF lines = <<>> THEN <<>> ELSE lines[1] \o writelines(Tail(lines))

\* generate_project(project, values, name): the text written to the file
generate_project(project, values) ==
    writelines(Instantiate(project, 1, values, FALSE, FALSE))

\* the lines a template is made of: text, an indented opening marker, a
\* closing marker, and both markers on one line
TemplateLines ==
    {<<"a">>, <<" ">> \o SystemOpen, SystemClose, SystemOpen \o SystemClose}

LineBreaks == {<<"\n">>, <<"\r", "\n">>}

TemplateFile(lines, eol, final) ==
    Join(eol, lines) \o (IF final /\ lines # <<>> THEN eol ELSE <<>>)

Templates ==
    {TemplateFile(lines, eol, final) :
         lines \in UNION {[1..n -> TemplateLines] : n \in 0..MaxLines},
         eol \in LineBreaks, final \in BOOLEAN}

\* the assignments a document is generated for: one for each flow controller
\* branch
TplVariants == {config.nominal, [config.nominal EXCEPT !.policy = 0]}

InitTpl ==
    /\ tpl_file \in Templates
    /\ tpl_project = None
    /\ tpl_doc = None
    /\ NameIdle
    /\ GenIdle
    /\ MainIdle
    /\ ScratchIdle

\* line 356: project = get_project(args.project_fname)
GetProject ==
    /\ ~tpl_project.ok
    /\ tpl_project' = [ok |-> TRUE, lines |-> get_project(tpl_file)]
    /\ UNCHANGED <<tpl_file, tpl_doc>>
    /\ UNCHANGED <<nameVars, genVars, scratchVars>>
    /\ UNCHANGED mainVars

\* line 207: generate_project(content, project, fullname)
GenerateProject ==
    /\ tpl_project.ok
    /\ ~tpl_doc.ok
    /\ \E values \in TplVariants :
           tpl_doc' = [ok |-> TRUE, values |-> values,
                       text |-> generate_project(tpl_project.lines, values)]
    /\ UNCHANGED <<tpl_file, tpl_project>>
    /\ UNCHANGED <<nameVars, genVars, scratchVars>>
    /\ UNCHANGED mainVars

NextTpl ==
    \/ GetProject
    \/ GenerateProject

SpecTpl == InitTpl /\ [][NextTpl]_vars

\* the lines of the template file as they are in the file
RawLines == ReadLines(tpl_file)

OpenLines == {i \in DOMAIN RawLines : Contains(RawLines[i], SystemOpen)}

CloseLines == {i \in DOMAIN RawLines : Contains(RawLines[i], SystemClose)}

\* one marked region: one line with the opening marker and, further down, one
\* line with the closing marker
WellFormed ==
    /\ Cardinality(OpenLines) = 1
    /\ Cardinality(CloseLines) = 1
    /\ \A i \in OpenLines, j \in CloseLines : i < j

\* C11: for a template with one marked region, the variant document is the
\* lines of the template before the region, unchanged and with their line
\* breaks, then the generated declarations, then the lines after the region,
\* unchanged and with their line breaks, the last line included whether or not
\* the file ends with a newline.
FramePreserved ==
    (tpl_doc.ok /\ WellFormed) =>
        LET open == CHOOSE i \in OpenLines : TRUE
            close == CHOOSE j \in CloseLines : TRUE
        IN  tpl_doc.text =
                writelines(SubSeq(RawLines, 1, open - 1))
                    \o writelines(Block(tpl_doc.values))
                    \o writelines(SubSeq(RawLines, close + 1, Len(RawLines)))

\* the four malformations: no opening marker, an opening marker with no
\* closing marker below it, both markers on one line, a second opening marker
Malformed ==
    \/ OpenLines = {}
    \/ \E i \in OpenLines : \A j \in CloseLines : j < i
    \/ OpenLines \cap CloseLines # {}
    \/ Cardinality(OpenLines) > 1

\* C12: generate_project writes a variant document only for a template whose
\* marker region is not malformed; for a malformed one it fails and writes
\* nothing.
MalformedFailsFast == tpl_doc.ok => ~Malformed

(***************************************************************************)
(* Result correlation                                                      *)
(***************************************************************************)
\* generate_properties(properties, path, prefix): the files written, each with
\* its text '{}\n'.format(property)
generate_properties(properties, k) ==
    [f \in {PropertyFile(k, i - 1) : i \in DOMAIN properties} |->
        <<properties[CHOOSE i \in DOMAIN properties : PropertyFile(k, i - 1) = f], "\n">>]

\* the entries an emitted report holds under a (VariantName, Index) key
EntriesAt(key) ==
    UNION {{report.projects[i].v[j].v :
                j \in {x \in DOMAIN report.projects[i].v :
                           report.projects[i].v[x].k = key[2]}} :
               i \in {x \in DOMAIN report.projects : report.projects[x].k = key[1]}}

\* the formula text and the decoded outcome of a report entry of a Kind
Decoded(k, entry) ==
    CASE k = "query" -> [formula |-> entry.query, outcome |-> entry.result]
      [] k = "probability" -> [formula |-> entry.probability, outcome |-> entry.result]
      [] k = "simulation" ->
             [formula |-> entry.simulation,
              outcome |-> <<entry.result,
                            {entry.series[i].k : i \in DOMAIN entry.series}>>]

\* what the entry of a job is to hold: the formula of the property file f
\* handed to the engine and the outcome its own stdout decodes to
Correlated(k, f, stdout) ==
    [formula |-> generate_properties(formulas[k], k)[f][1],
     outcome |-> CASE k = "query" -> stdout.satisfied
                   [] k = "probability" -> ProbabilityResult(stdout)
                   [] k = "simulation" ->
                          <<stdout.satisfied,
                            {stdout.traces[i] : i \in DOMAIN stdout.traces}>>]

MaxScratchProps == 101

ScratchKind == "query"

\* the orders os.listdir is taken to list the property files in
ScratchOrders == {"ascending", "descending"}

\* output_folder_parser: the n property files of the Kind in a listing order
ScratchProperties(n, order) ==
    [i \in 1..n |->
        PropertyFile(ScratchKind, IF order = "ascending" THEN i - 1 ELSE n - i)]

\* the document of a path as a job wrote it
Document(job) == [path |-> FullName(job.name), writer |-> job.property]

InitScratch ==
    /\ sc_n \in {1, MaxScratchProps}
    /\ sc_order \in ScratchOrders
    /\ sc_pool \in {PoolSize(n) : n \in 2..MaxCpu}
    /\ sc_pc = "run_all"
    /\ sc_next = 0
    /\ sc_inflight = {}
    /\ sc_files = {}
    /\ NameIdle
    /\ GenIdle
    /\ MainIdle
    /\ TplIdle

\* lines 203-208: a worker takes the next task of gen_args, names the job,
\* writes the variant document (open(name, 'w') replaces a file of that name)
\* and starts the engine
ScratchWrite ==
    /\ sc_pc = "run_all"
    /\ Cardinality(sc_inflight) < sc_pool
    /\ sc_next < sc_n
    /\ \E job \in {Job(config.nominal, ScratchProperties(sc_n, sc_order)[sc_next + 1])} :
           /\ sc_inflight' = sc_inflight \cup {job}
           /\ sc_files' = {d \in sc_files : d.path # FullName(job.name)}
                              \cup {Document(job)}
    /\ sc_next' = sc_next + 1
    /\ UNCHANGED <<sc_n, sc_order, sc_pool, sc_pc>>
    /\ UNCHANGED <<nameVars, genVars, tplVars>>
    /\ UNCHANGED mainVars

\* lines 208-213: the engine of a job returns and os.remove(fullname) runs; it
\* raises FileNotFoundError when no file of that name is left, and the loop of
\* run_all raises it again in the main process
ScratchRemove ==
    /\ sc_pc = "run_all"
    /\ \E job \in sc_inflight :
           /\ sc_inflight' = sc_inflight \ {job}
           /\ sc_files' = {d \in sc_files : d.path # FullName(job.name)}
           /\ sc_pc' = IF \E d \in sc_files : d.path = FullName(job.name)
                       THEN sc_pc ELSE "raised"
    /\ UNCHANGED <<sc_n, sc_order, sc_pool, sc_next>>
    /\ UNCHANGED <<nameVars, genVars, tplVars>>
    /\ UNCHANGED mainVars

\* lines 219-225: every task has delivered its result; run_all returns
ScratchReturn ==
    /\ sc_pc = "run_all"
    /\ sc_next = sc_n
    /\ sc_inflight = {}
    /\ sc_pc' = "returned"
    /\ UNCHANGED <<sc_n, sc_order, sc_pool, sc_next, sc_inflight, sc_files>>
    /\ UNCHANGED <<nameVars, genVars, tplVars>>
    /\ UNCHANGED mainVars

NextScratch ==
    \/ ScratchWrite
    \/ ScratchRemove
    \/ ScratchReturn

SpecScratch == InitScratch /\ [][NextScratch]_vars

\* C14: no two jobs of a run_all call in flight at once use the same variant
\* document path, and the document of every job in flight is in the scratch
\* directory as that job wrote it: no other job has overwritten or removed it.
ScratchPathsDistinct ==
    /\ \A a, b \in sc_inflight : FullName(a.name) = FullName(b.name) => a = b
    /\ \A job \in sc_inflight : Document(job) \in sc_files

(***************************************************************************)
(* Lifetime of the variant documents                                       *)
(***************************************************************************)
\* C15: a variant document is in the scratch directory only while the engine
\* of its job runs: it is removed when the engine returns, with a nonzero
\* status as with 0, so none is left when run_all has returned.
DocumentsRemoved ==
    /\ files \subseteq {FullName(job.name) : job \in inflight}
    /\ pc = "print" => files = {}

\* the engine of a job has exited with a nonzero status, no job is in flight
\* and the scratch directory holds no document
DocumentsRemovedWitness ==
    /\ pc = "run_all"
    /\ lost # {}
    /\ inflight = {}
    /\ files = {}

(***************************************************************************)
(* Termination of run_all                                                  *)
(***************************************************************************)
\* the steps of the main process other than the report builders
MainStep ==
    \/ GenerateProjects
    \/ SkipKind
    \/ RunAllStart
    \/ PoolError
    \/ RunAllReturn
    \/ Finish

PrintStep ==
    \/ PrintQueries
    \/ PrintProbabilities
    \/ PrintSimulations

\* the campaign under the scheduling the program runs with: the main process
\* runs on whenever it can take a step, an idle worker takes the next task,
\* and an engine that was started returns
SpecLive ==
    /\ Init
    /\ [][Next]_vars
    /\ WF_vars(MainStep)
    /\ WF_vars(StartJob)
    /\ ([]<>(pc # "print") \/ []<><<PrintStep>>_vars)
    /\ ([]<>(~(pc = "run_all" /\ inflight # {})) \/ []<><<EndJob>>_vars)

\* __main__ is about to call run_all with projects that yield 'length' variants
RunAllCalled ==
    /\ pc = "select"
    /\ kind \in 1..3
    /\ projects.type # "none"
    /\ KindEnabled(kind)
    /\ projects.type = "generator" => projects.gen.at = "fresh"

\* run_all has returned an accumulator of length * len(properties) results
RunAllReturned ==
    /\ pc = "print"
    /\ Len(results) = length * Len(run.properties)

\* C16: on a machine with N >= 1 processing units, a call of run_all whose
\* projects yield 'length' variants and whose engine invocations all exit
\* with 0 eventually returns, with length * len(properties) results.
RunAllTerminates == RunAllCalled ~> (RunAllReturned \/ failed_in # {})

(***************************************************************************)
(* Order of the sweep                                                      *)
(***************************************************************************)
\* the tuple (speed, disks, policy, out_sensors, stations_processing) of an
\* assignment, the components of the vectors in their order
Flat(a) == <<a.speed, a.disks, a.policy>> \o a.out_sensors \o a.stations_processing

\* lexicographic order of integer tuples of one length
LexLess(a, b) ==
    \E i \in DOMAIN a :
        /\ a[i] < b[i]
        /\ \A j \in DOMAIN a : j < i => a[j] = b[j]

\* C17: generate_extensive_project yields assignments of the configured
\* sweep, each one after its predecessor in lexicographic order of (speed,
\* disks, policy, out_sensors, stations_processing), and as many as the sweep
\* has: the sequence is the sweep in lexicographic order, fixed by the
\* configuration alone, so every invocation with it yields the same one.
LexOrdered ==
    g_yielded # <<>> =>
        LET n == Len(g_yielded)
            last == Flat(g_yielded[n])
        IN  /\ Len(last) = Len(FlatMin(g_values))
            /\ \A i \in DOMAIN last :
                   FlatMin(g_values)[i] <= last[i] /\ last[i] <= FlatMax(g_values)[i]
            /\ n >= 2 => LexLess(Flat(g_yielded[n - 1]), last)
            /\ g_gen.at = "done" =>
                   n = RangeProduct(FlatMin(g_values), FlatMax(g_values))

\* the inner vector has run through its range and started again while the
\* last component of the outer vector was exhausted and its first advanced
LexOrderedWitness ==
    /\ Len(g_yielded) >= 2
    /\ g_yielded[Len(g_yielded) - 1].out_sensors = <<0, 1>>
    /\ g_yielded[Len(g_yielded) - 1].stations_processing = <<1>>
    /\ g_yielded[Len(g_yielded)].out_sensors = <<1, 0>>
    /\ g_yielded[Len(g_yielded)].stations_processing = <<0>>

(***************************************************************************)
(* Artifacts of print_simulations                                          *)
(***************************************************************************)
\* the number of traces in the stdout of the jobs of a results dict
RECURSIVE TraceCount(_)
TraceCount(res) ==
    IF res = <<>> THEN 0 ELSE Len(res[1].v.traces) + TraceCount(Tail(res))

\* the artifact identifiers the entries of one project store, entry by entry
RECURSIVE EntryArtifacts(_)
EntryArtifacts(entries) ==
    IF entries = <<>> THEN <<>>
    ELSE [n \in DOMAIN entries[1].v.series |-> entries[1].v.series[n].v]
             \o EntryArtifacts(Tail(entries))

\* the artifact identifiers the report stores, project by project
RECURSIVE ReportArtifacts(_)
ReportArtifacts(projs) ==
    IF projs = <<>> THEN <<>>
    ELSE EntryArtifacts(projs[1].v) \o ReportArtifacts(Tail(projs))

\* the counter k in the name values_<k>.csv
CounterOf(name) == NatVal(SubSeq(name, 8, Len(name) - 4))

\* C18: after print_simulations, one artifact has been written for every
\* trace of every job, no two writes went to the same name, the k-th file
\* written carries the counter k, counted from 1, and the identifiers stored
\* in the report name written files, each a different one.
ArtifactsDistinct ==
    (report.ok /\ report.kind = "simulation") =>
        /\ Len(artifacts) = TraceCount(results)
        /\ \A i, j \in DOMAIN artifacts : artifacts[i] = artifacts[j] => i = j
        /\ \A i \in DOMAIN artifacts : CounterOf(artifacts[i]) = i
        /\ LET ids == ReportArtifacts(report.projects)
           IN  /\ \A i, j \in DOMAIN ids : ids[i] = ids[j] => i = j
               /\ \A i \in DOMAIN ids : \E n \in DOMAIN artifacts : artifacts[n] = ids[i]

\* two simulation jobs, the first to arrive with two traces and the other
\* with one
ArtifactsDistinctWitness ==
    /\ report.ok
    /\ report.kind = "simulation"
    /\ Len(results) = 2
    /\ Len(results[1].v.traces) = 2
    /\ Len(artifacts) = 3

====
